---- MODULE Spec2Model ----
(***************************************************************************)
(* Model of bot.py: the "ethos" slash command of the Ethos Discord bot.   *)
(*                                                                         *)
(* Every dispatched command runs the coroutine ethos() as one task of the  *)
(* single-threaded event loop of discord.Client.  A task runs from one     *)
(* suspension point (an await that performs I/O) to the next without       *)
(* interruption.  requests.get is an ordinary blocking call: the task      *)
(* keeps the loop's thread for the whole duration of the HTTP exchange.    *)
(*                                                                         *)
(* Strings the handler inspects character by character (the handle) are    *)
(* sequences of one-character strings; Join turns them into the strings    *)
(* the f-strings produce.                                                  *)
(***************************************************************************)
EXTENDS Integers, Sequences, FiniteSets, TLC

\* ------------------------------------------------------------- bounds
\* Number of command invocations the framework dispatches in one run.
NInv == 2
\* Longest twitter_handle argument of the single-invocation specification.
MaxLen == 3

Tasks == 1..NInv
NoTask == 0

\* Characters of a twitter_handle argument: the stripped character, a
\* letter, and a blank (the handler trims no whitespace).
Chars == {"@", "a", " "}

RECURSIVE SeqsUpTo(_)
SeqsUpTo(n) ==
    IF n = 0 THEN {<<>>}
    ELSE LET shorter == SeqsUpTo(n - 1)
         IN  shorter \cup {Append(s, c) : s \in {t \in shorter : Len(t) = n - 1}, c \in Chars}

\* Arguments of the single-invocation specification.
Handles == SeqsUpTo(MaxLen)
\* Arguments of the concurrent specification.
FewHandles == {<<"a">>, <<"@", "@", "a">>}

\* ------------------------------------------------------------ strings
RECURSIVE Join(_)
Join(s) == IF s = <<>> THEN "" ELSE Head(s) \o Join(Tail(s))

\* A variant of lstrip that drops one leading character at most
\* (str.removeprefix).
lstrip_once(s, chars) ==
    IF s # <<>> /\ Head(s) \in chars THEN Tail(s) ELSE s

\* str.lstrip(chars): drops leading characters while they are in chars.
RECURSIVE lstrip(_, _)
lstrip(s, chars) ==
    IF s # <<>> /\ Head(s) \in chars THEN lstrip(Tail(s), chars) ELSE s

Digits == <<"0", "1", "2", "3", "4", "5", "6", "7", "8", "9">>

RECURSIVE NatStr(_)
NatStr(n) == IF n < 10 THEN Digits[n + 1]
             ELSE NatStr(n \div 10) \o Digits[(n % 10) + 1]

\* A JSON value as json.loads returns it: int, str, bool or None.
JInt(n)  == [t |-> "int",  n |-> n, s |-> ""]
JStr(s)  == [t |-> "str",  n |-> 0, s |-> s]
JBool(b) == [t |-> "bool", n |-> IF b THEN 1 ELSE 0, s |-> ""]
JNull    == [t |-> "null", n |-> 0, s |-> ""]

\* Python's str() of such a value.
PyStr(v) ==
    CASE v.t = "int"  -> IF v.n < 0 THEN "-" \o NatStr(-v.n) ELSE NatStr(v.n)
      [] v.t = "str"  -> v.s
      [] v.t = "bool" -> IF v.n = 1 THEN "True" ELSE "False"
      [] v.t = "null" -> "None"

\* A variant of DictGet that ignores the default: dict.get(key).
DictGet_nodefault(d, key, default) == IF key \in DOMAIN d THEN d[key] ELSE JNull

\* dict.get(key, default)
DictGet(d, key, default) == IF key \in DOMAIN d THEN d[key] ELSE default

\* ---------------------------------------------------- the environment
\* os.getenv('ETHOS_API_KEY'): a string, or None when the variable is unset.
ApiKeys == {JStr("k3y"), JNull}

\* Bodies of an HTTP response, as response.json() sees them.
ObjectBody(d) == [kind |-> "object", data |-> d]
ArrayBody     == [kind |-> "array", data |-> <<>>]
NullBody      == [kind |-> "null", data |-> <<>>]
MalformedBody == [kind |-> "malformed", data |-> <<>>]

Scores == {JInt(87), JInt(0), JInt(-5), JInt(120), JStr("high"), JBool(TRUE), JNull}

Bodies ==
    {ObjectBody([score |-> v]) : v \in Scores}
      \cup {ObjectBody([score |-> JInt(87), name |-> JStr("x")]),
            ObjectBody([name |-> JStr("x")]),
            ObjectBody(<<>>), ArrayBody, NullBody, MalformedBody}

Responded(status, body) == [raises |-> FALSE, err |-> "", status |-> status, body |-> body]
Raises(err) == [raises |-> TRUE, err |-> err, status |-> 0, body |-> MalformedBody]

\* What requests.get does for one invocation: raises, or returns a response.
ApiBehaviours ==
    {Raises("Connection refused")}
      \cup {Responded(200, b) : b \in Bodies}
      \cup {Responded(s, b) : s \in {404, 500}, b \in {ObjectBody([score |-> JInt(87)]), MalformedBody}}

FewApiBehaviours ==
    {Raises("Connection refused"),
     Responded(200, ObjectBody([score |-> JInt(87)])),
     Responded(200, MalformedBody),
     Responded(404, MalformedBody)}

\* str() of the exception a failed interaction call raises.
DiscordErrors ==
    {"404 Not Found (error code: 10062): Unknown interaction",
     "503 Service Unavailable (error code: 0)"}

\* -------------------------------------------------------------- state
VARIABLES
    ETHOS_API_KEY,   \* module-level credential, read at import
    input,           \* input[i]: the twitter_handle argument of invocation i
    api,             \* api[i]: what the HTTP API does for invocation i
    pc,              \* pc[i]: where invocation i's coroutine stands
    twitter_handle,  \* twitter_handle[i]: the local after line 26
    running,         \* the task holding the loop's thread inside a blocking call
    log,             \* log[i]: the calls invocation i made and the exceptions raised in it
    exc              \* exc[i]: str() of the exception that left the handler

vars == <<ETHOS_API_KEY, input, api, pc, twitter_handle, running, log, exc>>

\* ------------------------------------------------------ log entries
NoMsg == [kind |-> "none", content |-> "", title |-> "", colour |-> "", fields |-> <<>>]
Text(content) == [kind |-> "text", content |-> content, title |-> "", colour |-> "", fields |-> <<>>]
Embed(title, colour, fields) ==
    [kind |-> "embed", content |-> "", title |-> title, colour |-> colour, fields |-> fields]
Field(name, value) == [name |-> name, value |-> value, inline |-> TRUE]

AckEv        == [ev |-> "ack",  url |-> "", auth |-> "", msg |-> NoMsg, err |-> ""]
GetEv(u, a)  == [ev |-> "get",  url |-> u,  auth |-> a,  msg |-> NoMsg, err |-> ""]
JsonEv       == [ev |-> "json", url |-> "", auth |-> "", msg |-> NoMsg, err |-> ""]
SendEv(m)    == [ev |-> "send", url |-> "", auth |-> "", msg |-> m,     err |-> ""]
FailEv(e)    == [ev |-> "fail", url |-> "", auth |-> "", msg |-> NoMsg, err |-> e]

\* ------------------------------------------------- what the handler builds
\* line 36: the f-string handed to requests.get
Url(h) == "https://api.ethos.com/v1/profile/" \o Join(h)

\* line 34: f'Bearer {ETHOS_API_KEY}'
Authorization(key) == "Bearer " \o PyStr(key)

\* A variant of IsOk that takes every status but 404 for a success.
IsOk_not404(status) == status # 404

\* line 40
IsOk(status) == status = 200

\* line 48: str(data.get('score', 'N/A'))
ScoreText(data) == PyStr(DictGet(data, "score", JStr("N/A")))

\* A variant of ProfileEmbed that reuses one module-level embed: add_field
\* appends to the fields of the embeds already sent.
ProfileEmbed_shared(h, data) ==
    LET sent == UNION {{<<i, k>> : k \in {n \in 1..Len(log[i]) :
                                            /\ log[i][n].ev = "send"
                                            /\ log[i][n].msg.kind = "embed"}} : i \in Tasks}
    IN  Embed("Ethos Profile for @" \o Join(h), "blue",
              [n \in 1..(Cardinality(sent) + 1) |-> Field("Ethos Score", ScoreText(data))])

\* lines 43-48
ProfileEmbed(h, data) ==
    Embed("Ethos Profile for @" \o Join(h), "blue",
          <<Field("Ethos Score", ScoreText(data))>>)

\* line 53
LookupFailedText(h) == Text("Error: Could not fetch Ethos profile for @" \o Join(h))

\* A variant of ErrorText that drops the exception's text.
ErrorText_generic(e) == Text("An error occurred")

\* line 56
ErrorText(e) == Text("An error occurred: " \o e)

\* str() of what lines 41 and 48 raise on a body that is no JSON object:
\* response.json() on malformed text, data.get on a list or on None.
JsonError(body) ==
    CASE body.kind = "malformed" -> "Expecting value: line 1 column 1 (char 0)"
      [] body.kind = "array"     -> "'list' object has no attribute 'get'"
      [] body.kind = "null"      -> "'NoneType' object has no attribute 'get'"

\* The outcome of a run of the coroutine up to its next suspension: the
\* calls it made, where it stands, and the exception that left it.
Outcome(evs, at, e) == [evs |-> evs, pc |-> at, exc |-> e]

\* A variant of Caught without the try block: the exception leaves the handler.
Caught_propagates(e, evs) == Outcome(evs \o <<FailEv(e)>>, "raised", e)

\* lines 55-56: an exception raised inside the try block, after the calls evs.
Caught(e, evs) == Outcome(evs \o <<FailEv(e), SendEv(ErrorText(e))>>, "sendErr", "")

\* An exception raised outside the try block (line 29), or inside the
\* except clause (line 56): it leaves the coroutine.
Escapes(e) == Outcome(<<FailEv(e)>>, "raised", e)

\* A variant of NotOk without the else branch: a non-200 status ends the
\* handler with nothing sent.
NotOk_silent(h, r) == Outcome(<<>>, "done", "")

\* lines 52-53
NotOk(h, r) == Outcome(<<SendEv(LookupFailedText(h))>>, "send", "")

\* lines 40-51
Ok(h, r) ==
    IF r.body.kind = "object"
    THEN Outcome(<<JsonEv, SendEv(ProfileEmbed(h, r.body.data))>>, "send", "")
    ELSE Caught(JsonError(r.body), <<JsonEv>>)

\* lines 35-56, from the return of requests.get to the await of followup.send
Interpret(h, r) ==
    IF r.raises THEN Caught(r.err, <<>>)
    ELSE IF IsOk(r.status) THEN Ok(h, r)
    ELSE NotOk(h, r)

\* --------------------------------------------------------------- steps
Apply(i, o) ==
    /\ log' = [log EXCEPT ![i] = @ \o o.evs]
    /\ pc' = [pc EXCEPT ![i] = o.pc]
    /\ exc' = [exc EXCEPT ![i] = o.exc]

\* lines 24-29: the framework starts the coroutine; it strips the handle
\* and suspends in interaction.response.defer().
Invoke(i) ==
    /\ running = NoTask
    /\ pc[i] = "new"
    /\ twitter_handle' = [twitter_handle EXCEPT ![i] = lstrip(input[i], {"@"})]
    /\ pc' = [pc EXCEPT ![i] = "defer"]
    /\ UNCHANGED <<ETHOS_API_KEY, input, api, running, log, exc>>

\* lines 29-38: the acknowledgement completed; the coroutine resumes and
\* enters requests.get, which blocks the loop's thread.
DeferOk(i) ==
    /\ running = NoTask
    /\ pc[i] = "defer"
    /\ Apply(i, Outcome(<<AckEv, GetEv(Url(twitter_handle[i]), Authorization(ETHOS_API_KEY))>>,
                        "get", ""))
    /\ running' = i
    /\ UNCHANGED <<ETHOS_API_KEY, input, api, twitter_handle>>

\* A variant of DeferRaise with the await inside the try block: the except
\* clause sends the error text of an interaction that was never acknowledged.
DeferRaise_caught(i, e) ==
    /\ running = NoTask
    /\ pc[i] = "defer"
    /\ Apply(i, Caught(e, <<>>))
    /\ UNCHANGED <<ETHOS_API_KEY, input, api, twitter_handle, running>>

\* line 29 raises: the await is outside the try block.
DeferRaise(i, e) ==
    /\ running = NoTask
    /\ pc[i] = "defer"
    /\ Apply(i, Escapes(e))
    /\ UNCHANGED <<ETHOS_API_KEY, input, api, twitter_handle, running>>

\* lines 35-56: requests.get returns or raises; the coroutine runs on to
\* the follow-up send it awaits next, and the loop's thread is free again.
HttpReturn(i) ==
    /\ running = i
    /\ pc[i] = "get"
    /\ Apply(i, Interpret(twitter_handle[i], api[i]))
    /\ running' = NoTask
    /\ UNCHANGED <<ETHOS_API_KEY, input, api, twitter_handle>>

\* lines 51, 53: the follow-up send of the try block completed.
SendOk(i) ==
    /\ running = NoTask
    /\ pc[i] = "send"
    /\ Apply(i, Outcome(<<>>, "done", ""))
    /\ UNCHANGED <<ETHOS_API_KEY, input, api, twitter_handle, running>>

\* A variant of SendRaise that retries the lookup after a failed delivery.
SendRaise_retry(i, e) ==
    /\ running = NoTask
    /\ pc[i] = "send"
    /\ Apply(i, Outcome(<<FailEv(e), GetEv(Url(twitter_handle[i]), Authorization(ETHOS_API_KEY))>>,
                        "get", ""))
    /\ running' = i
    /\ UNCHANGED <<ETHOS_API_KEY, input, api, twitter_handle>>

\* lines 51, 53 raise inside the try block: line 56 sends the error text.
SendRaise(i, e) ==
    /\ running = NoTask
    /\ pc[i] = "send"
    /\ Apply(i, Caught(e, <<>>))
    /\ UNCHANGED <<ETHOS_API_KEY, input, api, twitter_handle, running>>

\* line 56: the follow-up send of the except clause completed.
SendErrOk(i) ==
    /\ running = NoTask
    /\ pc[i] = "sendErr"
    /\ Apply(i, Outcome(<<>>, "done", ""))
    /\ UNCHANGED <<ETHOS_API_KEY, input, api, twitter_handle, running>>

\* line 56 raises: nothing encloses the except clause.
SendErrRaise(i, e) ==
    /\ running = NoTask
    /\ pc[i] = "sendErr"
    /\ Apply(i, Escapes(e))
    /\ UNCHANGED <<ETHOS_API_KEY, input, api, twitter_handle, running>>

\* Every step invocation i can take.
Step(i) ==
    \/ Invoke(i)
    \/ DeferOk(i)
    \/ \E e \in DiscordErrors : DeferRaise(i, e)
    \/ HttpReturn(i)
    \/ SendOk(i)
    \/ \E e \in DiscordErrors : SendRaise(i, e)
    \/ SendErrOk(i)
    \/ \E e \in DiscordErrors : SendErrRaise(i, e)

Next == \E i \in Tasks : Step(i)

\* After construction: the credential is loaded (and set), NInv commands
\* are about to be dispatched.
Init ==
    /\ ETHOS_API_KEY = JStr("k3y")
    /\ input \in [Tasks -> FewHandles]
    /\ api \in [Tasks -> FewApiBehaviours]
    /\ pc = [i \in Tasks |-> "new"]
    /\ twitter_handle = [i \in Tasks |-> <<>>]
    /\ running = NoTask
    /\ log = [i \in Tasks |-> <<>>]
    /\ exc = [i \in Tasks |-> ""]

Spec == Init /\ [][Next]_vars

\* One command, with every argument up to MaxLen characters, every API
\* behaviour and the credential set or unset; the other invocations are
\* never dispatched.
InitOne ==
    /\ ETHOS_API_KEY \in ApiKeys
    /\ \E h \in Handles : input = [i \in Tasks |-> IF i = 1 THEN h ELSE <<>>]
    /\ \E r \in ApiBehaviours : api = [i \in Tasks |-> IF i = 1 THEN r ELSE Raises("")]
    /\ pc = [i \in Tasks |-> IF i = 1 THEN "new" ELSE "absent"]
    /\ twitter_handle = [i \in Tasks |-> <<>>]
    /\ running = NoTask
    /\ log = [i \in Tasks |-> <<>>]
    /\ exc = [i \in Tasks |-> ""]

SpecOne == InitOne /\ [][Next]_vars

\* ------------------------------------------------------- observations
IsSend(e) == e.ev = "send"
IsGet(e)  == e.ev = "get"
IsFail(e) == e.ev = "fail"

Sends(i) == SelectSeq(log[i], IsSend)
Gets(i)  == SelectSeq(log[i], IsGet)
Fails(i) == SelectSeq(log[i], IsFail)

Has(i, ev) == \E k \in 1..Len(log[i]) : log[i][k].ev = ev

\* Invocation i has been started / requests.get has returned or raised in it /
\* its coroutine has ended.
Started(i)  == pc[i] \in {"defer", "get", "send", "sendErr", "done", "raised"}
Returned(i) == Has(i, "get") /\ pc[i] # "get"
Finished(i) == pc[i] \in {"done", "raised"}

\* ----------------------------------------------------------------- C1
\* The number of "@" characters s begins with, and s without them.
LeadingAts(s) ==
    CHOOSE k \in 0..Len(s) :
        /\ \A j \in 1..k : s[j] = "@"
        /\ k = Len(s) \/ s[k + 1] # "@"
WithoutLeadingAts(s) == SubSeq(s, LeadingAts(s) + 1, Len(s))
WithoutOneAt(s) == IF Len(s) > 0 /\ s[1] = "@" THEN SubSeq(s, 2, Len(s)) ELSE s

\* The request URL and the embed title of invocation i are built from handle h.
UsesHandle(i, h) ==
    /\ \A k \in 1..Len(log[i]) :
          /\ log[i][k].ev = "get" =>
                log[i][k].url = "https://api.ethos.com/v1/profile/" \o Join(h)
          /\ (log[i][k].ev = "send" /\ log[i][k].msg.kind = "embed") =>
                log[i][k].msg.title = "Ethos Profile for @" \o Join(h)

\* C1 as stated: normalization removes exactly one leading "@" ("@@alice"
\* becomes "@alice"), leaves other inputs unchanged, and that handle is the
\* one in the request URL and in the embed title.
C1_StripsExactlyOne ==
    \A i \in Tasks : Started(i) =>
        /\ twitter_handle[i] = WithoutOneAt(input[i])
        /\ UsesHandle(i, WithoutOneAt(input[i]))

\* C1 amended: normalization removes every leading "@" ("@@a" becomes "a",
\* never "@a"), leaves an input without a leading "@" unchanged (inner and
\* trailing "@" and blanks included), and that handle is the one in the
\* request URL and in the embed title.
C1_StripsAllLeading ==
    \A i \in Tasks : Started(i) =>
        /\ twitter_handle[i] = WithoutLeadingAts(input[i])
        /\ (input[i] = <<>> \/ input[i][1] # "@") => twitter_handle[i] = input[i]
        /\ UsesHandle(i, WithoutLeadingAts(input[i]))

\* "@@a" was looked up as "a": requested under .../profile/a and shown as "@a".
C1_Witness ==
    \E i \in Tasks :
        /\ input[i] = <<"@", "@", "a">>
        /\ Gets(i) # <<>> /\ Gets(i)[1].url = "https://api.ethos.com/v1/profile/a"
        /\ \E k \in 1..Len(log[i]) :
              /\ log[i][k].ev = "send" /\ log[i][k].msg.kind = "embed"
              /\ log[i][k].msg.title = "Ethos Profile for @a"

\* ----------------------------------------------------------------- C2
\* The k-th entry of log[i] is an exception raised by the deferred
\* acknowledgement (nothing precedes it) or by the follow-up send of the
\* except clause (the send that follows an earlier exception).
OutsideTry(i, k) ==
    \/ k = 1
    \/ k >= 3 /\ log[i][k - 1].ev = "send" /\ log[i][k - 2].ev = "fail"

\* C2 as stated: no exception ever leaves the handler.
C2_NothingEscapes ==
    \A i \in Tasks : pc[i] # "raised"

\* C2 amended: a failure of the HTTP request, of JSON parsing or of the
\* follow-up send made inside the try block is caught and followed at once
\* by a follow-up send of the text "An error occurred: <the error>"; a
\* failure of the deferred acknowledgement, or of the follow-up send made by
\* the except clause, leaves the handler, and nothing else does.
C2_CaughtInsideTryOnly ==
    \A i \in Tasks :
        /\ \A k \in 1..Len(log[i]) : log[i][k].ev = "fail" =>
              IF OutsideTry(i, k)
              THEN /\ k = Len(log[i])
                   /\ pc[i] = "raised"
                   /\ exc[i] = log[i][k].err
              ELSE /\ k < Len(log[i])
                   /\ log[i][k - 1].ev \in {"get", "json", "send"}
                   /\ log[i][k + 1].ev = "send"
                   /\ log[i][k + 1].msg.kind = "text"
                   /\ log[i][k + 1].msg.content = "An error occurred: " \o log[i][k].err
        /\ pc[i] = "raised" =>
              /\ log[i] # <<>>
              /\ log[i][Len(log[i])].ev = "fail"
              /\ OutsideTry(i, Len(log[i]))
        /\ (Returned(i) /\ api[i].raises) =>
              \E k \in 1..Len(log[i]) : log[i][k] = FailEv(api[i].err)

\* A failed HTTP request and a failed follow-up send were each answered by
\* an error text, and the invocation ended normally.
C2_Witness ==
    \E i, j \in Tasks :
        /\ pc[i] = "done" /\ api[i].raises /\ Len(Sends(i)) = 1
        /\ pc[j] = "done" /\ ~api[j].raises /\ Len(Sends(j)) = 2

\* ----------------------------------------------------------------- C3
\* The deferred acknowledgement of invocation i failed.
DeferFailed(i) == log[i] # <<>> /\ log[i][1].ev = "fail"

\* A follow-up send made inside the try block (one no exception precedes)
\* failed in invocation i.
TrySendFailed(i) ==
    \E k \in 1..(Len(log[i]) - 1) :
        /\ log[i][k].ev = "send"
        /\ log[i][k - 1].ev # "fail"
        /\ log[i][k + 1].ev = "fail"

\* C3 as stated: an invocation that has ended handed exactly one message
\* to the follow-up primitive.
C3_ExactlyOneMessage ==
    \A i \in Tasks : Finished(i) => Len(Sends(i)) = 1

\* C3 amended: an invocation hands at most two messages to the follow-up
\* primitive; once it has ended it handed none when the deferred
\* acknowledgement failed, two when the follow-up send inside the try
\* block failed (the except clause sends the error text after it), and
\* exactly one otherwise.
C3_MessagesPerInvocation ==
    \A i \in Tasks :
        /\ Len(Sends(i)) <= 2
        /\ Finished(i) =>
              Len(Sends(i)) = IF DeferFailed(i) THEN 0
                              ELSE IF TrySendFailed(i) THEN 2
                              ELSE 1

\* The case of two messages: the send of the try block failed, the error
\* text followed.
C3_Witness ==
    \E i \in Tasks :
        /\ Finished(i) /\ TrySendFailed(i) /\ Len(Sends(i)) = 2
        /\ Sends(i)[2].msg.kind = "text"

\* ----------------------------------------------------------------- C4
\* The text of each score value of Scores, written out.
ScoreTexts ==
    {<<JInt(87), "87">>, <<JInt(0), "0">>, <<JInt(-5), "-5">>, <<JInt(120), "120">>,
     <<JStr("high"), "high">>, <<JBool(TRUE), "True">>, <<JNull, "None">>}

ExpectedScoreText(data) ==
    IF "score" \in DOMAIN data
    THEN (CHOOSE p \in ScoreTexts : p[1] = data["score"])[2]
    ELSE "N/A"

IsOkObject(r) == ~r.raises /\ r.status = 200 /\ r.body.kind = "object"

\* C4: after a status 200 with a JSON object body, the first message handed
\* to the follow-up primitive is an embed titled "Ethos Profile for
\* @{handle}" with the single field "Ethos Score", whose value is the text
\* of the "score" value when the key is present (87 gives "87") and "N/A"
\* when it is absent; the body was parsed, and no exception was raised
\* before that message.
C4_SuccessEmbed ==
    \A i \in Tasks : (Returned(i) /\ IsOkObject(api[i])) =>
        /\ Len(Sends(i)) >= 1
        /\ LET m == Sends(i)[1].msg
           IN  /\ m.kind = "embed"
               /\ m.title = "Ethos Profile for @" \o Join(twitter_handle[i])
               /\ Len(m.fields) = 1
               /\ m.fields[1].name = "Ethos Score"
               /\ m.fields[1].value = ExpectedScoreText(api[i].body.data)
        /\ log[i][3] = JsonEv
        /\ log[i][4] = Sends(i)[1]

\* The body {"score": 87} for the handle "a" was delivered as the embed
\* "Ethos Profile for @a" with the value "87".
C4_Witness ==
    \E i \in Tasks :
        /\ pc[i] = "done"
        /\ input[i] = <<"a">>
        /\ api[i] = Responded(200, ObjectBody([score |-> JInt(87)]))
        /\ Len(Sends(i)) = 1
        /\ Sends(i)[1].msg.title = "Ethos Profile for @a"
        /\ Sends(i)[1].msg.fields[1].value = "87"

\* ----------------------------------------------------------------- C5
\* C5: after any status other than 200, the first message handed to the
\* follow-up primitive is the plain text "Error: Could not fetch Ethos
\* profile for @{handle}"; the invocation sends no embed and never parses
\* the body.
C5_LookupFailed ==
    \A i \in Tasks : (Returned(i) /\ ~api[i].raises /\ api[i].status # 200) =>
        /\ Len(Sends(i)) >= 1
        /\ Sends(i)[1].msg.kind = "text"
        /\ Sends(i)[1].msg.content =
              "Error: Could not fetch Ethos profile for @" \o Join(twitter_handle[i])
        /\ Sends(i)[1].msg.fields = <<>>
        /\ \A k \in 1..Len(log[i]) :
              /\ log[i][k].ev # "json"
              /\ log[i][k].ev = "send" => log[i][k].msg.kind = "text"

\* A status 500 with a well-formed body for "@a" was answered by the text
\* naming "a".
C5_Witness ==
    \E i \in Tasks :
        /\ pc[i] = "done"
        /\ input[i] = <<"@", "a">>
        /\ api[i] = Responded(500, ObjectBody([score |-> JInt(87)]))
        /\ Len(Sends(i)) = 1
        /\ Sends(i)[1].msg.content = "Error: Could not fetch Ethos profile for @a"

\* ----------------------------------------------------------------- C6
\* str() of the exception each failing behaviour of the API leads to.
ExpectedError(r) ==
    IF r.raises THEN r.err
    ELSE CASE r.body.kind = "malformed" -> "Expecting value: line 1 column 1 (char 0)"
           [] r.body.kind = "array"     -> "'list' object has no attribute 'get'"
           [] r.body.kind = "null"      -> "'NoneType' object has no attribute 'get'"

\* C6: when the HTTP request raises, or a status 200 body is malformed or
\* is no JSON object, the first message handed to the follow-up primitive
\* is the plain text "An error occurred: <str of the exception>", and the
\* invocation sends no embed.
C6_ExceptionText ==
    \A i \in Tasks :
        (Returned(i) /\ (api[i].raises \/ (api[i].status = 200 /\ api[i].body.kind # "object"))) =>
            /\ Len(Sends(i)) >= 1
            /\ Sends(i)[1].msg.kind = "text"
            /\ Sends(i)[1].msg.content = "An error occurred: " \o ExpectedError(api[i])
            /\ \A k \in 1..Len(log[i]) :
                  log[i][k].ev = "send" => log[i][k].msg.kind = "text"

\* A refused connection was answered by "An error occurred: Connection refused".
C6_Witness ==
    \E i \in Tasks :
        /\ pc[i] = "done"
        /\ api[i] = Raises("Connection refused")
        /\ Len(Sends(i)) = 1
        /\ Sends(i)[1].msg.content = "An error occurred: Connection refused"

\* ----------------------------------------------------------------- C7
\* Invocation j has a step of its own to take.
Pending(j) == pc[j] \in {"new", "defer", "send", "sendErr"}

\* C7 as stated: while invocation i waits for its HTTP call to return,
\* every other invocation with a step to take can take it.
C7_OthersRunDuringHttp ==
    \A i, j \in Tasks :
        (i # j /\ pc[i] = "get" /\ Pending(j)) => ENABLED Step(j)

\* ----------------------------------------------------------------- C8
Min(a, b) == IF a < b THEN a ELSE b

\* C8: two invocations with the same argument and the same API behaviour,
\* however interleaved, issue the same request and hand the same first
\* message to the follow-up primitive; when the same exceptions were raised
\* in both, all their messages agree.
C8_SameInputsSameMessages ==
    \A i, j \in Tasks : (input[i] = input[j] /\ api[i] = api[j]) =>
        /\ (Gets(i) # <<>> /\ Gets(j) # <<>>) => Gets(i)[1] = Gets(j)[1]
        /\ (Sends(i) # <<>> /\ Sends(j) # <<>>) => Sends(i)[1] = Sends(j)[1]
        /\ Fails(i) = Fails(j) =>
              \A k \in 1..Min(Len(Sends(i)), Len(Sends(j))) : Sends(i)[k] = Sends(j)[k]

\* Two invocations for "@@a" against the same successful API both ended,
\* each with its embed delivered.
C8_Witness ==
    \E i, j \in Tasks :
        /\ i # j
        /\ input[i] = <<"@", "@", "a">> /\ input[j] = input[i]
        /\ IsOkObject(api[i]) /\ api[j] = api[i]
        /\ pc[i] = "done" /\ pc[j] = "done"
        /\ Len(Sends(i)) = 1 /\ Sends(i)[1].msg.kind = "embed"
        /\ Sends(j) = Sends(i)

\* ----------------------------------------------------------------- C9
\* C9: an invocation issues at most one GET, and exactly one once the
\* acknowledgement completed; it goes to the fixed endpoint followed by the
\* normalized handle, with the header "Bearer <credential>" ("Bearer None"
\* when the credential is unset); no status, exception or failed delivery
\* makes the handler issue another.
C9_SingleGet ==
    \A i \in Tasks :
        /\ Len(Gets(i)) <= 1
        /\ Has(i, "ack") => Len(Gets(i)) = 1
        /\ \A k \in 1..Len(log[i]) : log[i][k].ev = "get" =>
              /\ log[i][k].url = "https://api.ethos.com/v1/profile/" \o Join(twitter_handle[i])
              /\ log[i][k].auth =
                    "Bearer " \o (IF ETHOS_API_KEY.t = "str" THEN ETHOS_API_KEY.s ELSE "None")

\* A status 404 whose error text could not be delivered, and the delivery
\* of the second text failed too: one GET in all.
C9_Witness ==
    \E i \in Tasks :
        /\ pc[i] = "raised"
        /\ ~api[i].raises /\ api[i].status = 404
        /\ TrySendFailed(i)
        /\ Len(Fails(i)) = 2
        /\ Len(Gets(i)) = 1

\* ---------------------------------------------------------------- C10
\* C10: in every invocation the handle is normalized before anything is
\* called; the GET comes after the completed acknowledgement; every
\* follow-up send comes after the acknowledgement and after the GET; when
\* the acknowledgement fails there is neither a GET nor a follow-up send.
C10_Order ==
    \A i \in Tasks :
        /\ ~Started(i) => log[i] = <<>>
        /\ \A k \in 1..Len(log[i]) :
              /\ log[i][k].ev = "ack" => k = 1
              /\ log[i][k].ev = "get" =>
                    \E m \in 1..(k - 1) : log[i][m].ev = "ack"
              /\ log[i][k].ev = "send" =>
                    /\ \E m \in 1..(k - 1) : log[i][m].ev = "ack"
                    /\ \E m \in 1..(k - 1) : log[i][m].ev = "get"
        /\ DeferFailed(i) => (Gets(i) = <<>> /\ Sends(i) = <<>>)

\* An invocation ended after acknowledgement, GET and follow-up send, in
\* that order, and another one ended with its acknowledgement failed.
C10_Witness ==
    \E i, j \in Tasks :
        /\ pc[i] = "done"
        /\ log[i][1].ev = "ack" /\ log[i][2].ev = "get"
        /\ log[i][Len(log[i])].ev = "send"
        /\ pc[j] = "raised" /\ DeferFailed(j)

====
